---------------------------- MODULE Spec2Model ----------------------------
(***************************************************************************)
(* Model of the movie-hub data-access core:                                *)
(*   - the Remote Data Gateway of lib/api (cache table, pacing scalar and  *)
(*     the twelve fetch operations), and                                   *)
(*   - the Local Tracked-Items Store of hooks/use-watchlist (one React     *)
(*     state per useWatchlist() caller, mirrored to localStorage),         *)
(*   - the WatchlistPanel's filtered and sorted view of that Store,        *)
(*   - discover answered from the demo data when no credential is set, and *)
(*   - the SearchBar's debounced searches.                                 *)
(* Time is in milliseconds.  Ratings are in tenths (8.7 is 87).            *)
(***************************************************************************)
EXTENDS Integers, Sequences, FiniteSets, TLC

VARIABLES
    demoMode,         \* DEMO_MODE: TRUE when the TMDB credential is absent
    now,              \* Date.now()
    ticks,            \* number of clock advances so far (bounds the run)
    lastRequestTime,  \* pacing scalar of rateLimitedRequest
    cache,            \* the Map of lib/api: key -> {data, timestamp}
    calls,            \* one record per Gateway call (an async invocation)
    localStorage,     \* value stored under WATCHLIST_KEY
    hooks,            \* one record per useWatchlist() caller
    panel,            \* WatchlistPanel: filter, sortBy and what it rendered
    lookup,           \* the last isInWatchlist / getWatchlistItem answer
    demo,             \* one discover call answered from the demo data
    searchBar         \* SearchBar: its state, its debounce timer, its searches

vars == <<demoMode, now, ticks, lastRequestTime, cache, calls,
          localStorage, hooks, panel, lookup, demo, searchBar>>

gatewayVars == <<demoMode, lastRequestTime, cache, calls>>
storeVars == <<localStorage, hooks>>
uiVars == <<panel, lookup, demo, searchBar>>

(***************************************************************************)
(* Bounds of the model.                                                    *)
(***************************************************************************)
MaxCalls == 2
MaxTicks == 3
StartTime == 1000
MaxHooks == 2
MaxItems == 2
MaxStoreTicks == 1
MaxViewItems == 3

\* Calls issued one at a time by any caller.
CallIds == 1..MaxCalls

\* The calls of the dashboard's initial load: the four entries of the
\* Promise.all array, in the order they are started.
InitialLoad ==
    <<[op |-> "getTrendingMovies", arg |-> "week"],
      [op |-> "getTrendingTVShows", arg |-> "week"],
      [op |-> "getGenres", arg |-> "movie"],
      [op |-> "getGenres", arg |-> "tv"]>>

LoadIds == {MaxCalls + i : i \in 1..Len(InitialLoad)}

Slots == CallIds \cup LoadIds

(***************************************************************************)
(* Program constants (lib/api).                                            *)
(***************************************************************************)
CACHE_DURATION == 5 * 60 * 1000
RATE_LIMIT_DELAY == 100

\* The clock advances by half the pacing delay or by a whole TTL.
ShortStep == RATE_LIMIT_DELAY \div 2
TickSteps == {ShortStep, CACHE_DURATION}

(***************************************************************************)
(* The Gateway operations and what distinguishes them in the source.       *)
(***************************************************************************)
Ops == {"searchMovies", "searchTVShows", "getTrendingMovies",
        "getTrendingTVShows", "getMovieDetails", "getTVShowDetails",
        "getMovieCredits", "getTVShowCredits", "getGenres",
        "discoverMovies", "discoverTVShows", "getOMDBData"}

PrimaryOps == Ops \ {"getOMDBData"}

\* The operations that start with an `if (DEMO_MODE)` branch.
DemoOps == {"searchMovies", "searchTVShows", "getTrendingMovies",
            "getTrendingTVShows", "getGenres", "discoverMovies",
            "discoverTVShows"}

\* The simulated API delay of each demo branch (setTimeout).
DemoDelay(op) ==
    CASE op \in {"searchMovies", "searchTVShows"} -> 500
      [] op \in {"getTrendingMovies", "getTrendingTVShows"} -> 800
      [] op = "getGenres" -> 300
      [] OTHER -> 600

\* The operations whose cache key is built from a params object.
DiscoverOps == {"discoverMovies", "discoverTVShows"}

\* A params object: its properties in insertion order, each value given as
\* its JSON text, or "undefined".
Param(key, val) == [key |-> key, val |-> val]

\* Params objects passed to discoverMovies / discoverTVShows: the same two
\* filters written in either order, and page 1 with and without an
\* undefined genre (what the dashboard passes for 'all').
DiscoverParams ==
    {<<Param("page", "1"), Param("genre", "28")>>,
     <<Param("genre", "28"), Param("page", "1")>>,
     <<Param("page", "1"), Param("genre", "undefined")>>,
     <<Param("page", "1")>>}

\* JSON.stringify(params): the properties in insertion order, those whose
\* value is undefined left out.
RECURSIVE JoinProps(_)
JoinProps(props) ==
    IF Len(props) = 0 THEN ""
    ELSE LET first == "\"" \o props[1].key \o "\":" \o props[1].val
         IN IF Len(props) = 1 THEN first
            ELSE first \o "," \o JoinProps(Tail(props))

StringifyParams(params) ==
    "{" \o JoinProps(SelectSeq(params, LAMBDA p : p.val # "undefined")) \o "}"

\* The arguments a call is issued with (one logical parameter set each,
\* two for getGenres, which the dashboard calls for both kinds).
ArgsOf(op) ==
    CASE op \in {"searchMovies", "searchTVShows"} -> {"matrix_1"}
      [] op \in {"getTrendingMovies", "getTrendingTVShows"} -> {"week"}
      [] op = "getGenres" -> {"movie", "tv"}
      [] op \in DiscoverOps -> {StringifyParams(<<Param("page", "1")>>)}
      [] op = "getOMDBData" -> {"tt0133093"}
      [] OTHER -> {"1"}

KeyPrefix(op) ==
    CASE op = "searchMovies" -> "search_movies"
      [] op = "searchTVShows" -> "search_tv"
      [] op = "getTrendingMovies" -> "trending_movies"
      [] op = "getTrendingTVShows" -> "trending_tv"
      [] op = "getMovieDetails" -> "movie_details"
      [] op = "getTVShowDetails" -> "tv_details"
      [] op = "getMovieCredits" -> "movie_credits"
      [] op = "getTVShowCredits" -> "tv_credits"
      [] op = "getGenres" -> "genres"
      [] op = "discoverMovies" -> "discover_movies"
      [] op = "discoverTVShows" -> "discover_tv"
      [] OTHER -> "omdb"

\* const cacheKey = `prefix_${args}`
cacheKey(op, arg) == <<KeyPrefix(op), arg>>

Keys ==
    UNION {{cacheKey(op, a) : a \in ArgsOf(op)} : op \in Ops}
    \cup {cacheKey(op, StringifyParams(p)) : op \in DiscoverOps, p \in DiscoverParams}

\* throw new Error('Failed to ...') of each catch block.
ErrorMessage(op) ==
    CASE op = "searchMovies" -> "Failed to search movies"
      [] op = "searchTVShows" -> "Failed to search TV shows"
      [] op = "getTrendingMovies" -> "Failed to fetch trending movies"
      [] op = "getTrendingTVShows" -> "Failed to fetch trending TV shows"
      [] op = "getMovieDetails" -> "Failed to fetch movie details"
      [] op = "getTVShowDetails" -> "Failed to fetch TV show details"
      [] op = "getMovieCredits" -> "Failed to fetch movie credits"
      [] op = "getTVShowCredits" -> "Failed to fetch TV show credits"
      [] op = "getGenres" -> "Failed to fetch genres"
      [] op = "discoverMovies" -> "Failed to discover movies"
      [] op = "discoverTVShows" -> "Failed to discover TV shows"
      [] OTHER -> ""

\* Payloads a provider can answer with (two, so that a stale value shows).
Payloads == {"d1", "d2"}

\* What the provider does with one outbound request.
Outcomes(op) ==
    IF op = "getOMDBData"
    THEN [kind : {"ok"}, data : Payloads]
         \cup {[kind |-> "notfound", data |-> ""], [kind |-> "error", data |-> ""]}
    ELSE [kind : {"ok"}, data : Payloads] \cup {[kind |-> "error", data |-> ""]}

(***************************************************************************)
(* Cache primitive.                                                        *)
(***************************************************************************)
NoEntry == [present |-> FALSE, data |-> "", timestamp |-> 0]

\* Mutant of getCachedData: the lookup never finds an entry.
getCachedData_Miss(key) == "null"

\* Mutant of CacheValid: an entry whose age is exactly the TTL is still served.
CacheValid_Inclusive(entry, t) ==
    entry.present /\ t - entry.timestamp <= CACHE_DURATION

\* The test of getCachedData: the entry exists and is younger than the TTL.
CacheValid(entry, t) ==
    entry.present /\ t - entry.timestamp < CACHE_DURATION

\* getCachedData(key): the data of a valid entry, else null.
getCachedData(key) ==
    IF CacheValid(cache[key], now) THEN cache[key].data ELSE "null"

\* setCachedData(key, data): cache.set(key, {data, timestamp: Date.now()})
setCachedData(key, data) ==
    [cache EXCEPT ![key] = [present |-> TRUE, data |-> data, timestamp |-> now]]

(***************************************************************************)
(* Calls.                                                                  *)
(***************************************************************************)
IdleCall ==
    [pc |-> "idle", op |-> "", arg |-> "", issuedAt |-> 0, wakeAt |-> 0,
     outcome |-> "none", status |-> "none", data |-> "", msg |-> ""]

KeyOf(c) == cacheKey(calls[c].op, calls[c].arg)

\* The synchronous part of rateLimitedRequest: how long the call must sleep
\* before it may start its request (0: it starts at once), given the pacing
\* scalar last.
PacingWait(last) ==
    IF now - last < RATE_LIMIT_DELAY
    THEN RATE_LIMIT_DELAY - (now - last)
    ELSE 0

\* Mutant of StartRequest: a call joins the request another call has in
\* flight for its key instead of making its own.
StartRequest_Coalesce(g, c) ==
    IF \E d \in DOMAIN g.calls :
           /\ d # c /\ g.calls[d].pc = "net"
           /\ cacheKey(g.calls[d].op, g.calls[d].arg)
                  = cacheKey(g.calls[c].op, g.calls[c].arg)
    THEN [calls |-> [g.calls EXCEPT ![c].pc = "done", ![c].status = "return",
                                    ![c].wakeAt = 0],
          last |-> g.last]
    ELSE [calls |-> [g.calls EXCEPT ![c].pc = "net", ![c].wakeAt = 0],
          last |-> now]

\* lastRequestTime = Date.now(); return requestFn();
\* g is the pair [calls, last] the step works on.
StartRequest(g, c) ==
    [calls |-> [g.calls EXCEPT ![c].pc = "net", ![c].wakeAt = 0],
     last |-> now]

\* One Gateway function invoked as op(arg) in slot c, run up to its first
\* await: the demo branch, the cache lookup, and the synchronous part of
\* rateLimitedRequest.
Invoke(g, c, op, arg) ==
    LET key == cacheKey(op, arg)
        rec == [IdleCall EXCEPT !.op = op, !.arg = arg, !.issuedAt = now]
        with(r) == [g EXCEPT !.calls[c] = r]
    IN IF demoMode /\ op \in DemoOps
       THEN with([rec EXCEPT !.pc = "demo", !.wakeAt = now + DemoDelay(op)])
       ELSE IF getCachedData(key) # "null"
       THEN with([rec EXCEPT !.pc = "done", !.status = "return",
                             !.data = getCachedData(key)])
       ELSE IF PacingWait(g.last) > 0
       THEN with([rec EXCEPT !.pc = "sleep", !.wakeAt = now + PacingWait(g.last)])
       ELSE StartRequest(with(rec), c)

Current == [calls |-> calls, last |-> lastRequestTime]

Commit(g) ==
    /\ calls' = g.calls
    /\ lastRequestTime' = g.last

\* A caller invokes operation op(arg).
Issue(c, op, arg) ==
    /\ calls[c].pc = "idle"
    /\ \A d \in CallIds : d < c => calls[d].pc # "idle"
    /\ Commit(Invoke(Current, c, op, arg))
    /\ UNCHANGED <<demoMode, now, ticks, cache>>
    /\ UNCHANGED storeVars
    /\ UNCHANGED uiVars

\* Dashboard.loadInitialData: Promise.all starts the four calls one after
\* the other in the same synchronous block.
RECURSIVE InvokeAll(_, _)
InvokeAll(g, i) ==
    IF i > Len(InitialLoad)
    THEN g
    ELSE InvokeAll(Invoke(g, MaxCalls + i, InitialLoad[i].op, InitialLoad[i].arg), i + 1)

loadInitialData ==
    /\ \A c \in LoadIds : calls[c].pc = "idle"
    /\ Commit(InvokeAll(Current, 1))
    /\ UNCHANGED <<demoMode, now, ticks, cache>>
    /\ UNCHANGED storeVars
    /\ UNCHANGED uiVars

\* The pacing timer of a sleeping call fires.
Wake(c) ==
    /\ calls[c].pc = "sleep"
    /\ now >= calls[c].wakeAt
    /\ Commit(StartRequest(Current, c))
    /\ UNCHANGED <<demoMode, now, ticks, cache>>
    /\ UNCHANGED storeVars
    /\ UNCHANGED uiVars

\* Mutant of OnFailure: the catch block makes the request again.
OnFailure_Retry(rec) ==
    [rec EXCEPT !.pc = "net"]

\* Mutant of OnFailure: every catch block returns null, as getOMDBData's does.
OnFailure_Swallow(rec) ==
    [rec EXCEPT !.pc = "done", !.status = "return", !.data = "null"]

\* What a call does when its request failed (the catch block).
OnFailure(rec) ==
    IF rec.op = "getOMDBData"
    THEN [rec EXCEPT !.pc = "done", !.status = "return", !.data = "null"]
    ELSE [rec EXCEPT !.pc = "done", !.status = "throw", !.msg = ErrorMessage(rec.op)]

\* Mutant of CacheOnFailure: the catch block drops the key's entry.
CacheOnFailure_Evict(key) ==
    [cache EXCEPT ![key] = NoEntry]

\* The cache after a request of key failed (no catch block touches it).
CacheOnFailure(key) == cache

\* Mutant of OnNotFound: a no-match answer is thrown like a primary failure.
OnNotFound_Throw(rec) ==
    [rec EXCEPT !.pc = "done", !.status = "throw", !.msg = "Failed to fetch OMDB data"]

\* What getOMDBData does when OMDb answered with Response other than 'True':
\* return null.
OnNotFound(rec) ==
    [rec EXCEPT !.pc = "done", !.status = "return", !.data = "null"]

\* The request of call c completes with outcome out.
Respond(c, out) ==
    /\ calls[c].pc = "net"
    /\ LET rec == [calls[c] EXCEPT !.outcome = out.kind]
       IN IF out.kind = "error"
          THEN /\ calls' = [calls EXCEPT ![c] = OnFailure(rec)]
               /\ cache' = CacheOnFailure(KeyOf(c))
          ELSE IF out.kind = "ok"
          THEN \* response.data.Response === 'True' for OMDb; any 2xx for TMDB
               /\ cache' = setCachedData(KeyOf(c), out.data)
               /\ calls' = [calls EXCEPT ![c] =
                                [rec EXCEPT !.pc = "done", !.status = "return",
                                            !.data = out.data]]
          ELSE \* OMDb answered Response: 'False'
               /\ cache' = cache
               /\ calls' = [calls EXCEPT ![c] = OnNotFound(rec)]
    /\ UNCHANGED <<demoMode, now, ticks, lastRequestTime>>
    /\ UNCHANGED storeVars
    /\ UNCHANGED uiVars

\* The simulated delay of a demo branch is over: the sample data is returned.
DemoReturn(c) ==
    /\ calls[c].pc = "demo"
    /\ now >= calls[c].wakeAt
    /\ calls' = [calls EXCEPT ![c] =
                     [@ EXCEPT !.pc = "done", !.status = "return", !.data = "demo",
                               !.wakeAt = 0]]
    /\ UNCHANGED <<demoMode, now, ticks, lastRequestTime, cache>>
    /\ UNCHANGED storeVars
    /\ UNCHANGED uiVars

\* The calls waiting on a setTimeout.
Sleeping == {c \in Slots : calls[c].pc \in {"sleep", "demo"}}

\* How far the clock may advance in one step: a fixed step, or up to the
\* deadline of a pending timer.
TickChoices == TickSteps \cup {calls[c].wakeAt - now : c \in Sleeping}

\* Time passes.  Timers fire when they are due: the clock does not pass the
\* deadline of a pending timer.
Tick(d) ==
    /\ ticks < MaxTicks
    /\ d > 0
    /\ \A c \in Sleeping : now + d <= calls[c].wakeAt
    /\ now' = now + d
    /\ ticks' = ticks + 1
    /\ UNCHANGED gatewayVars
    /\ UNCHANGED storeVars
    /\ UNCHANGED uiVars

IssueAny == \E c \in CallIds, op \in Ops : \E arg \in ArgsOf(op) : Issue(c, op, arg)
WakeAny == \E c \in Slots : Wake(c)
RespondAny == \E c \in Slots : \E out \in Outcomes(calls[c].op) : Respond(c, out)
DemoReturnAny == \E c \in Slots : DemoReturn(c)
TickAny == \E d \in TickChoices : Tick(d)

\* The dashboard's filters changed: discoverMovies(params) or
\* discoverTVShows(params) is called.
IssueDiscover(c, op, params) == Issue(c, op, StringifyParams(params))

IssueDiscoverAny ==
    \E c \in CallIds, op \in DiscoverOps, params \in DiscoverParams :
        IssueDiscover(c, op, params)

\* Callers of the two discover operations.
DiscoverNext ==
    IssueDiscoverAny \/ WakeAny \/ RespondAny \/ DemoReturnAny \/ TickAny

\* Callers issuing calls one at a time.
GatewayNext == IssueAny \/ WakeAny \/ RespondAny \/ DemoReturnAny \/ TickAny

\* The dashboard's initial load.
DashboardNext == loadInitialData \/ WakeAny \/ RespondAny \/ DemoReturnAny \/ TickAny

(***************************************************************************)
(* Local Tracked-Items Store: hooks/use-watchlist.                         *)
(***************************************************************************)
HookIds == 1..MaxHooks

\* What a card passes to addToWatchlist: the WatchlistItem fields except
\* added_date and watched.  poster_path "<null>" stands for null.
Catalog ==
    {[id |-> 1, title |-> "The Matrix", type |-> "movie", poster_path |-> "<null>",
      release_date |-> "1999-03-30", vote_average |-> 87, overview |-> "A computer programmer"],
     [id |-> 1, title |-> "Pride and Prejudice", type |-> "tv", poster_path |-> "/pp.jpg",
      release_date |-> "1995-09-24", vote_average |-> 89, overview |-> "Elizabeth Bennet"],
     [id |-> 2, title |-> "Inception", type |-> "movie", poster_path |-> "<null>",
      release_date |-> "2010-07-16", vote_average |-> 88, overview |-> "A thief"]}

Ids == {s.id : s \in Catalog}
Types == {"movie", "tv"}

\* new Date(t).toISOString(): the string that renders instant t.
toISOString(t) == [iso |-> t]

\* { ...item, added_date: new Date().toISOString(), watched: false }
NewItem(snap) ==
    [id |-> snap.id, title |-> snap.title, type |-> snap.type,
     poster_path |-> snap.poster_path, release_date |-> snap.release_date,
     vote_average |-> snap.vote_average, overview |-> snap.overview,
     added_date |-> toISOString(now), watched |-> FALSE]

(***************************************************************************)
(* JavaScript values held by the watchlist state, and JSON texts.          *)
(***************************************************************************)
\* The state holds whatever JSON.parse returned: an array of items, or a
\* value that is no array.
Arr(items) == [t |-> "array", items |-> items]
NonArr(kind) == [t |-> kind, items |-> <<>>]

\* JSON text of a scalar.
Num(n) == [k |-> "num", n |-> n, s |-> ""]
Str(str) == [k |-> "str", n |-> 0, s |-> str]
IsoStr(d) == [k |-> "isostr", n |-> d.iso, s |-> ""]
Null == [k |-> "null", n |-> 0, s |-> ""]
Bool(b) == [k |-> IF b THEN "true" ELSE "false", n |-> 0, s |-> ""]

\* JSON.stringify of one item: its properties in insertion order.
StringifyItem(it) ==
    <<[key |-> "id", val |-> Num(it.id)],
      [key |-> "title", val |-> Str(it.title)],
      [key |-> "type", val |-> Str(it.type)],
      [key |-> "poster_path",
       val |-> IF it.poster_path = "<null>" THEN Null ELSE Str(it.poster_path)],
      [key |-> "release_date", val |-> Str(it.release_date)],
      [key |-> "vote_average", val |-> Num(it.vote_average)],
      [key |-> "overview", val |-> Str(it.overview)],
      [key |-> "added_date", val |-> IsoStr(it.added_date)],
      [key |-> "watched", val |-> Bool(it.watched)]>>

\* JSON.stringify(newWatchlist)
JSONstringify(items) ==
    [j |-> "array", elems |-> [i \in 1..Len(items) |-> StringifyItem(items[i])]]

\* Texts that are not the serialization of an array.
Garbage == [j |-> "garbage", elems |-> <<>>]
NullText == [j |-> "null", elems |-> <<>>]
ObjectText == [j |-> "object", elems |-> <<>>]

Prop(text, key) == (CHOOSE p \in {text[i] : i \in 1..Len(text)} : p.key = key).val

ParseItem(text) ==
    [id |-> Prop(text, "id").n,
     title |-> Prop(text, "title").s,
     type |-> Prop(text, "type").s,
     poster_path |-> IF Prop(text, "poster_path").k = "null"
                     THEN "<null>" ELSE Prop(text, "poster_path").s,
     release_date |-> Prop(text, "release_date").s,
     vote_average |-> Prop(text, "vote_average").n,
     overview |-> Prop(text, "overview").s,
     added_date |-> [iso |-> Prop(text, "added_date").n],
     watched |-> (Prop(text, "watched").k = "true")]

\* JSON.parse(saved) of a text that parses.
JSONparse(text) ==
    IF text.j = "array"
    THEN Arr([i \in 1..Len(text.elems) |-> ParseItem(text.elems[i])])
    ELSE NonArr(text.j)

\* localStorage under WATCHLIST_KEY.
Absent == [present |-> FALSE, text |-> Garbage]
Stored(text) == [present |-> TRUE, text |-> text]

(***************************************************************************)
(* useWatchlist                                                            *)
(***************************************************************************)
\* useState([]) and useState(true), before the load effect has run.
FreshHook == [mounted |-> FALSE, isLoading |-> TRUE, watchlist |-> Arr(<<>>)]

Matches(it, id, type) == it.id = id /\ it.type = type

\* watchlist.some(item => item.id === id && item.type === type)
isInWatchlist(w, id, type) ==
    \E i \in 1..Len(w.items) : Matches(w.items[i], id, type)

\* Mutant of Loaded: the effect never reads what is stored.
Loaded_Empty(saved) == Arr(<<>>)

\* What the load effect leaves in the state for a stored value.
Loaded(saved) ==
    IF ~saved.present
    THEN Arr(<<>>)                    \* if (saved) is false: state untouched
    ELSE IF saved.text.j \in {"garbage", "null"}
    THEN Arr(<<>>)                    \* JSON.parse or parsed.length throws
    ELSE JSONparse(saved.text)

\* The effect of useEffect(..., []): load from localStorage.
Mount(h) ==
    /\ ~hooks[h].mounted
    /\ hooks' = [hooks EXCEPT ![h] = [mounted |-> TRUE, isLoading |-> FALSE,
                                      watchlist |-> Loaded(localStorage)]]
    /\ UNCHANGED localStorage
    /\ UNCHANGED <<now, ticks>>
    /\ UNCHANGED gatewayVars
    /\ UNCHANGED uiVars

\* Mutant of Persisted: a delta write, only the last item is serialized.
Persisted_LastOnly(items) ==
    Stored(JSONstringify(IF Len(items) = 0 THEN <<>> ELSE <<items[Len(items)]>>))

\* What saveWatchlist writes for the list it is given.
Persisted(items) == Stored(JSONstringify(items))

\* saveWatchlist(newWatchlist): setWatchlist, then localStorage.setItem.
saveWatchlist(h, items) ==
    /\ hooks' = [hooks EXCEPT ![h].watchlist = Arr(items)]
    /\ localStorage' = Persisted(items)

\* An operation on a state that is no array throws a TypeError before it
\* reaches saveWatchlist: nothing is changed.
Threw == UNCHANGED <<hooks, localStorage>>

\* Mutant of Added: the new item is put in front of the list.
Added_Front(items, snap) == <<NewItem(snap)>> \o items

\* The list addToWatchlist saves.
Added(items, snap) == Append(items, NewItem(snap))

\* Mutant of Removed: the filter compares the id only.
Removed_ById(items, id, type) == SelectSeq(items, LAMBDA it : it.id # id)

\* The list removeFromWatchlist saves.
Removed(items, id, type) == SelectSeq(items, LAMBDA it : ~Matches(it, id, type))

\* Mutant of Toggled: the matching item is marked watched instead of flipped.
Toggled_SetWatched(items, id, type) ==
    [i \in 1..Len(items) |->
        IF Matches(items[i], id, type)
        THEN [items[i] EXCEPT !.watched = TRUE]
        ELSE items[i]]

\* Mutant of Toggled: the map compares the id only.
Toggled_ById(items, id, type) ==
    [i \in 1..Len(items) |->
        IF items[i].id = id
        THEN [items[i] EXCEPT !.watched = ~items[i].watched]
        ELSE items[i]]

\* The list toggleWatched saves.
Toggled(items, id, type) ==
    [i \in 1..Len(items) |->
        IF Matches(items[i], id, type)
        THEN [items[i] EXCEPT !.watched = ~items[i].watched]
        ELSE items[i]]

addToWatchlist(h, snap) ==
    /\ hooks[h].mounted
    /\ IF hooks[h].watchlist.t = "array"
       THEN /\ Len(hooks[h].watchlist.items) < MaxItems
            /\ saveWatchlist(h, Added(hooks[h].watchlist.items, snap))
       ELSE Threw
    /\ UNCHANGED <<now, ticks>>
    /\ UNCHANGED gatewayVars
    /\ UNCHANGED uiVars

removeFromWatchlist(h, id, type) ==
    /\ hooks[h].mounted
    /\ IF hooks[h].watchlist.t = "array"
       THEN /\ saveWatchlist(h, Removed(hooks[h].watchlist.items, id, type))
       ELSE Threw
    /\ UNCHANGED <<now, ticks>>
    /\ UNCHANGED gatewayVars
    /\ UNCHANGED uiVars

toggleWatched(h, id, type) ==
    /\ hooks[h].mounted
    /\ IF hooks[h].watchlist.t = "array"
       THEN /\ saveWatchlist(h, Toggled(hooks[h].watchlist.items, id, type))
       ELSE Threw
    /\ UNCHANGED <<now, ticks>>
    /\ UNCHANGED gatewayVars
    /\ UNCHANGED uiVars

clearWatchlist(h) ==
    /\ hooks[h].mounted
    /\ saveWatchlist(h, <<>>)
    /\ UNCHANGED <<now, ticks>>
    /\ UNCHANGED gatewayVars
    /\ UNCHANGED uiVars

\* getWatchlistStats(): the counts are lengths of filtered copies of the
\* state; on a state that is no array watchlist.filter is not a function.
getWatchlistStats(w) ==
    IF w.t = "array"
    THEN LET total == Len(w.items)
             watched == Len(SelectSeq(w.items, LAMBDA it : it.watched))
         IN [threw |-> FALSE,
             total |-> total,
             watched |-> watched,
             unwatched |-> total - watched,
             movies |-> Len(SelectSeq(w.items, LAMBDA it : it.type = "movie")),
             tvShows |-> Len(SelectSeq(w.items, LAMBDA it : it.type = "tv"))]
    ELSE [threw |-> TRUE, total |-> 0, watched |-> 0, unwatched |-> 0,
          movies |-> 0, tvShows |-> 0]

\* MovieCard.handleWatchlistToggle: remove when the card's hook has the
\* item, add otherwise.
handleWatchlistToggle(h, snap) ==
    /\ hooks[h].mounted
    /\ hooks[h].watchlist.t = "array"
    /\ IF isInWatchlist(hooks[h].watchlist, snap.id, snap.type)
       THEN removeFromWatchlist(h, snap.id, snap.type)
       ELSE addToWatchlist(h, snap)

(***************************************************************************)
(* WatchlistPanel: the filtered and sorted view, and the lookups.          *)
(***************************************************************************)
PanelHook == 1

Filters == {"all", "movie", "tv", "watched", "unwatched"}
SortKeys == {"added_date", "title", "release_date", "rating"}

\* watchlist.filter(item => { switch (filter) ... })
filteredWatchlist(items, filter) ==
    SelectSeq(items,
              LAMBDA it : CASE filter = "movie" -> it.type = "movie"
                            [] filter = "tv" -> it.type = "tv"
                            [] filter = "watched" -> it.watched
                            [] filter = "unwatched" -> ~it.watched
                            [] OTHER -> TRUE)

\* new Date(dateString).getTime() of the release dates of the catalog: UTC
\* midnight, counted here in seconds (the ms values, all multiples of 1000,
\* exceed the checker's integers; the comparator only uses their differences).
getTime(dateString) ==
    CASE dateString = "1999-03-30" -> 922752000
      [] dateString = "1995-09-24" -> 811900800
      [] dateString = "2010-07-16" -> 1279238400

\* The titles of the catalog in collation order.
TitleOrder == <<"Inception", "Pride and Prejudice", "The Matrix">>

TitleRank(title) == CHOOSE i \in 1..Len(TitleOrder) : TitleOrder[i] = title

\* a.localeCompare(b): negative, zero or positive.
localeCompare(a, b) == TitleRank(a) - TitleRank(b)

\* Mutant of Compare: the default order is oldest first.
Compare_OldestFirst(a, b, sortBy) ==
    CASE sortBy = "title" -> localeCompare(a.title, b.title)
      [] sortBy = "release_date" -> getTime(b.release_date) - getTime(a.release_date)
      [] sortBy = "rating" -> b.vote_average - a.vote_average
      [] OTHER -> a.added_date.iso - b.added_date.iso

\* The comparator given to sort.
Compare(a, b, sortBy) ==
    CASE sortBy = "title" -> localeCompare(a.title, b.title)
      [] sortBy = "release_date" -> getTime(b.release_date) - getTime(a.release_date)
      [] sortBy = "rating" -> b.vote_average - a.vote_average
      [] OTHER -> b.added_date.iso - a.added_date.iso

\* Array.prototype.sort with a comparator: a stable sort.
RECURSIVE Insert(_, _, _)
Insert(sorted, x, sortBy) ==
    IF Len(sorted) = 0 \/ Compare(sorted[Len(sorted)], x, sortBy) <= 0
    THEN Append(sorted, x)
    ELSE Append(Insert(SubSeq(sorted, 1, Len(sorted) - 1), x, sortBy),
                sorted[Len(sorted)])

RECURSIVE Sort(_, _)
Sort(items, sortBy) ==
    IF Len(items) = 0 THEN <<>>
    ELSE Insert(Sort(SubSeq(items, 1, Len(items) - 1), sortBy),
                items[Len(items)], sortBy)

\* [...filteredWatchlist].sort(...)
sortedWatchlist(items, filter, sortBy) == Sort(filteredWatchlist(items, filter), sortBy)

\* Mutant of StateAfterRender: sort is applied to the state's own array.
StateAfterRender_SortInPlace(w, sortBy) == Arr(Sort(w.items, sortBy))

\* The array held by the hook's state after a render: filter returned a new
\* array and sort was given a copy of it, so it is the array it was.
StateAfterRender(w, sortBy) == w

\* What one render of the panel computes.
Render(w, filter, sortBy) ==
    [filter |-> filter, sortBy |-> sortBy,
     stats |-> getWatchlistStats(w),
     view |-> sortedWatchlist(w.items, filter, sortBy)]

\* useState('all'), useState('added_date'), first render on the empty list.
InitialPanel == Render(Arr(<<>>), "all", "added_date")

\* The panel's hook runs its load effect; the panel renders what it loaded.
PanelMount ==
    /\ ~hooks[PanelHook].mounted
    /\ hooks' = [hooks EXCEPT ![PanelHook] =
                     [mounted |-> TRUE, isLoading |-> FALSE,
                      watchlist |-> Loaded(localStorage)]]
    /\ panel' = Render(Loaded(localStorage), panel.filter, panel.sortBy)
    /\ UNCHANGED <<localStorage, lookup, demo, searchBar, now, ticks>>
    /\ UNCHANGED gatewayVars

\* The panel renders again with filter f and sort key k.
Rerender(f, k) ==
    /\ hooks[PanelHook].mounted
    /\ panel' = Render(hooks[PanelHook].watchlist, f, k)
    /\ hooks' = [hooks EXCEPT ![PanelHook].watchlist = StateAfterRender(@, k)]
    /\ UNCHANGED <<localStorage, lookup, demo, searchBar, now, ticks>>
    /\ UNCHANGED gatewayVars

setFilter(f) == f # panel.filter /\ Rerender(f, panel.sortBy)

setSortBy(k) == k # panel.sortBy /\ Rerender(panel.filter, k)

\* A mutation made from a row of the panel: the hook saves the new list and
\* the panel renders it.
PanelSave(items) ==
    /\ hooks[PanelHook].mounted
    /\ saveWatchlist(PanelHook, items)
    /\ panel' = Render(Arr(items), panel.filter, panel.sortBy)
    /\ UNCHANGED <<lookup, demo, searchBar, now, ticks>>
    /\ UNCHANGED gatewayVars

\* handleToggleWatched(item) for the i-th row shown.
handleToggleWatched(i) ==
    /\ i \in 1..Len(panel.view)
    /\ PanelSave(Toggled(hooks[PanelHook].watchlist.items,
                         panel.view[i].id, panel.view[i].type))

\* handleRemoveItem(item) for the i-th row shown.
handleRemoveItem(i) ==
    /\ i \in 1..Len(panel.view)
    /\ PanelSave(Removed(hooks[PanelHook].watchlist.items,
                         panel.view[i].id, panel.view[i].type))

\* handleClearAll()
handleClearAll ==
    /\ Len(hooks[PanelHook].watchlist.items) > 0
    /\ PanelSave(<<>>)

\* watchlist.find(item => item.id === id && item.type === type)
getWatchlistItem(w, id, type) ==
    IF isInWatchlist(w, id, type)
    THEN [found |-> TRUE,
          watched |-> w.items[CHOOSE i \in 1..Len(w.items) :
                                  /\ Matches(w.items[i], id, type)
                                  /\ \A j \in 1..(i - 1) : ~Matches(w.items[j], id, type)].watched]
    ELSE [found |-> FALSE, watched |-> FALSE]

NoLookup == [id |-> 0, type |-> "", inWatchlist |-> FALSE, isWatched |-> FALSE]

\* A component asks the hook isInWatchlist(id, type) and
\* getWatchlistItem(id, type)?.watched || false.
Lookup(id, type) ==
    /\ hooks[PanelHook].mounted
    /\ lookup' = [id |-> id, type |-> type,
                  inWatchlist |-> isInWatchlist(hooks[PanelHook].watchlist, id, type),
                  isWatched |-> getWatchlistItem(hooks[PanelHook].watchlist, id, type).watched]
    /\ UNCHANGED <<hooks, localStorage, panel, demo, searchBar, now, ticks>>
    /\ UNCHANGED gatewayVars

(***************************************************************************)
(* lib/api without a credential: discover answered from the demo data.     *)
(***************************************************************************)
\* DEMO_MOVIES and DEMO_TV_SHOWS.  Popularity is in tenths (95.5 is 955).
DEMO_MOVIES ==
    <<[id |-> 1, title |-> "The Matrix", release_date |-> "1999-03-30",
       vote_average |-> 87, genre_ids |-> {28, 878}, popularity |-> 955],
      [id |-> 2, title |-> "Inception", release_date |-> "2010-07-16",
       vote_average |-> 88, genre_ids |-> {28, 878, 53}, popularity |-> 882]>>

DEMO_TV_SHOWS ==
    <<[id |-> 101, name |-> "Breaking Bad", first_air_date |-> "2008-01-20",
       vote_average |-> 95, genre_ids |-> {18, 80}, popularity |-> 923]>>

\* An absent genre, year or sortBy: `if (params.genre)` and the like take
\* the same branch for undefined, 0 and ''.
NoGenre == 0
NoYear == 0
NoSortBy == ""

\* Genres and years a caller can ask for: those of the data and one more.
DemoGenres == {NoGenre, 28, 878, 53, 18, 80, 35}
DemoYears == {NoYear, 1999, 2010, 2008, 2000}

\* Sort keys: the six the dashboard offers for movies, the two it offers for
\* shows only, and one that neither operation names.
DashboardSortKeys ==
    {"popularity.desc", "popularity.asc", "vote_average.desc",
     "vote_average.asc", "release_date.desc", "release_date.asc"}
DemoSortKeys ==
    DashboardSortKeys \cup {NoSortBy, "first_air_date.desc", "first_air_date.asc", "title.asc"}

DemoParams == [genre : DemoGenres, year : DemoYears, sortBy : DemoSortKeys]

\* new Date(d).getFullYear() of the dates of the demo data.
getFullYear(d) ==
    CASE d = "1999-03-30" -> 1999
      [] d = "2010-07-16" -> 2010
      [] d = "2008-01-20" -> 2008

\* new Date(d).getTime() of the dates of the demo data, in seconds.
DemoTime(d) ==
    CASE d = "1999-03-30" -> 922752000
      [] d = "2010-07-16" -> 1279238400
      [] d = "2008-01-20" -> 1200787200

\* movie.release_date or show.first_air_date.
DateOf(op, it) == IF op = "discoverMovies" THEN it.release_date ELSE it.first_air_date

\* Mutant of DemoFilter: the genre is not looked at.
DemoFilter_AnyGenre(op, items, params) ==
    SelectSeq(items,
              LAMBDA it : params.year # NoYear => getFullYear(DateOf(op, it)) = params.year)

\* The genre filter, then the year filter.
DemoFilter(op, items, params) ==
    LET byGenre == IF params.genre # NoGenre
                   THEN SelectSeq(items, LAMBDA it : params.genre \in it.genre_ids)
                   ELSE items
    IN  IF params.year # NoYear
        THEN SelectSeq(byGenre, LAMBDA it : getFullYear(DateOf(op, it)) = params.year)
        ELSE byGenre

\* The name each operation gives to its two date keys.
DateKey(op, dir) ==
    IF op = "discoverMovies" THEN "release_date." \o dir ELSE "first_air_date." \o dir

\* Mutant of DemoCompare: the default order is ascending popularity.
DemoCompare_DefaultAscending(op, a, b, sortBy) ==
    CASE sortBy = "vote_average.desc" -> b.vote_average - a.vote_average
      [] sortBy = "vote_average.asc" -> a.vote_average - b.vote_average
      [] sortBy = DateKey(op, "desc") -> DemoTime(DateOf(op, b)) - DemoTime(DateOf(op, a))
      [] sortBy = DateKey(op, "asc") -> DemoTime(DateOf(op, a)) - DemoTime(DateOf(op, b))
      [] OTHER -> a.popularity - b.popularity

\* The comparator the switch on params.sortBy selects.
DemoCompare(op, a, b, sortBy) ==
    CASE sortBy = "vote_average.desc" -> b.vote_average - a.vote_average
      [] sortBy = "vote_average.asc" -> a.vote_average - b.vote_average
      [] sortBy = DateKey(op, "desc") -> DemoTime(DateOf(op, b)) - DemoTime(DateOf(op, a))
      [] sortBy = DateKey(op, "asc") -> DemoTime(DateOf(op, a)) - DemoTime(DateOf(op, b))
      [] sortBy = "popularity.asc" -> a.popularity - b.popularity
      [] OTHER -> b.popularity - a.popularity

\* Array.prototype.sort with that comparator.
RECURSIVE DemoInsert(_, _, _, _)
DemoInsert(op, sorted, x, sortBy) ==
    IF Len(sorted) = 0 \/ DemoCompare(op, sorted[Len(sorted)], x, sortBy) <= 0
    THEN Append(sorted, x)
    ELSE Append(DemoInsert(op, SubSeq(sorted, 1, Len(sorted) - 1), x, sortBy),
                sorted[Len(sorted)])

RECURSIVE DemoSort(_, _, _)
DemoSort(op, items, sortBy) ==
    IF Len(items) = 0 THEN <<>>
    ELSE DemoInsert(op, DemoSort(op, SubSeq(items, 1, Len(items) - 1), sortBy),
                    items[Len(items)], sortBy)

DemoData(op) == IF op = "discoverMovies" THEN DEMO_MOVIES ELSE DEMO_TV_SHOWS

\* The results of the DEMO_MODE branch: without a sortBy nothing is sorted.
DemoResults(op, params) ==
    LET filtered == DemoFilter(op, DemoData(op), params)
    IN  IF params.sortBy # NoSortBy THEN DemoSort(op, filtered, params.sortBy)
        ELSE filtered

NoDemoCall ==
    [pc |-> "idle", op |-> "", params |-> [genre |-> NoGenre, year |-> NoYear, sortBy |-> NoSortBy],
     wakeAt |-> 0, results |-> <<>>]

\* discoverMovies(params) or discoverTVShows(params) is called in DEMO_MODE:
\* it awaits a timer of 600 ms.
DemoDiscover(op, params) ==
    /\ demoMode
    /\ demo.pc # "sleep"
    /\ ticks < MaxTicks
    /\ demo' = [pc |-> "sleep", op |-> op, params |-> params,
                wakeAt |-> now + DemoDelay(op), results |-> <<>>]
    /\ UNCHANGED <<panel, lookup, searchBar, now, ticks>>
    /\ UNCHANGED gatewayVars
    /\ UNCHANGED storeVars

\* Time passes until the timer fires; the call filters, sorts and returns.
DemoDiscoverReturn ==
    /\ demo.pc = "sleep"
    /\ now' = demo.wakeAt
    /\ ticks' = ticks + 1
    /\ demo' = [demo EXCEPT !.pc = "done", !.wakeAt = 0,
                            !.results = DemoResults(demo.op, demo.params)]
    /\ UNCHANGED <<panel, lookup, searchBar>>
    /\ UNCHANGED gatewayVars
    /\ UNCHANGED storeVars

(***************************************************************************)
(* SearchBar: query, results, the debounce timer and the searches it       *)
(* started.                                                                *)
(***************************************************************************)
\* What can be in the input: nothing, a blank, and three searches.
Queries == {"", " ", "m", "ma", "in"}

\* searchQuery.trim() is empty.
Blank(q) == q \in {"", " "}

\* The combined results a provider has for a query: type and id of each,
\* by popularity.
ResultsOf(q) ==
    CASE q = "m" -> <<[type |-> "movie", id |-> 1], [type |-> "tv", id |-> 1]>>
      [] q = "ma" -> <<[type |-> "movie", id |-> 1]>>
      [] q = "in" -> <<[type |-> "movie", id |-> 2]>>
      [] OTHER -> <<>>

NoTimer == "<none>"

\* useState of the four fields; the effect of the first render has called
\* debouncedSearch('').
InitialSearchBar ==
    [query |-> "", results |-> <<>>, isLoading |-> FALSE, showResults |-> FALSE,
     timer |-> "", inFlight |-> {}]

\* The effect on [query]: the former timer is cancelled, debouncedSearch(q)
\* arms a new one.
QueryEffect(q) == q

\* handleInputChange: the input now reads value.
handleInputChange(value) ==
    /\ value # searchBar.query
    /\ searchBar' = IF Blank(value)
                    THEN [searchBar EXCEPT !.query = value, !.showResults = FALSE,
                                           !.results = <<>>, !.timer = QueryEffect(value)]
                    ELSE [searchBar EXCEPT !.query = value, !.timer = QueryEffect(value)]
    /\ UNCHANGED <<panel, lookup, demo, now, ticks>>
    /\ UNCHANGED gatewayVars
    /\ UNCHANGED storeVars

\* setQuery(''), setShowResults(false), setResults([]) of handleSelectItem
\* and of clearSearch.
ResetSearch ==
    /\ searchBar' = [searchBar EXCEPT !.query = "", !.showResults = FALSE,
                                      !.results = <<>>,
                                      !.timer = IF searchBar.query = "" THEN @
                                                ELSE QueryEffect("")]
    /\ UNCHANGED <<panel, lookup, demo, now, ticks>>
    /\ UNCHANGED gatewayVars
    /\ UNCHANGED storeVars

\* handleSelectItem: one of the results shown is clicked.
handleSelectItem(i) ==
    /\ searchBar.showResults
    /\ i \in 1..Len(searchBar.results)
    /\ ResetSearch

\* clearSearch: the button shown while the input is not empty.
clearSearch ==
    /\ searchBar.query # ""
    /\ ResetSearch

\* What performSearch does once Promise.all has settled: the try block's
\* setResults and setShowResults(true), or the catch block's setResults([]),
\* then setIsLoading(false).
SearchDone(sb, q, ok) ==
    IF ok
    THEN [sb EXCEPT !.results = ResultsOf(q), !.showResults = TRUE,
                    !.isLoading = FALSE, !.inFlight = @ \ {q}]
    ELSE [sb EXCEPT !.results = <<>>, !.isLoading = FALSE, !.inFlight = @ \ {q}]

\* The debounce timer fires: performSearch(searchQuery) runs up to its await.
performSearch ==
    /\ searchBar.timer # NoTimer
    /\ searchBar' = IF Blank(searchBar.timer)
                    THEN [searchBar EXCEPT !.results = <<>>, !.showResults = FALSE,
                                           !.timer = NoTimer]
                    ELSE [searchBar EXCEPT !.isLoading = TRUE, !.timer = NoTimer,
                                           !.inFlight = @ \cup {searchBar.timer}]
    /\ UNCHANGED <<panel, lookup, demo, now, ticks>>
    /\ UNCHANGED gatewayVars
    /\ UNCHANGED storeVars

\* The two searches of one performSearch have settled.
SearchSettles(q, ok) ==
    /\ q \in searchBar.inFlight
    /\ searchBar' = SearchDone(searchBar, q, ok)
    /\ UNCHANGED <<panel, lookup, demo, now, ticks>>
    /\ UNCHANGED gatewayVars
    /\ UNCHANGED storeVars

\* Values a browser can hold under the key when the application starts.
InitialStorage ==
    {Absent, Stored(Garbage), Stored(NullText), Stored(ObjectText),
     Stored(JSONstringify(<<>>))}

\* The module of lib/api has just been loaded; no component uses the Store.
GatewayInit ==
    /\ demoMode \in BOOLEAN
    /\ now = StartTime
    /\ ticks = 0
    /\ lastRequestTime = 0
    /\ cache = [k \in Keys |-> NoEntry]
    /\ calls = [c \in Slots |-> IdleCall]
    /\ localStorage = Absent
    /\ hooks = [h \in HookIds |-> FreshHook]
    /\ panel = InitialPanel
    /\ lookup = NoLookup
    /\ demo = NoDemoCall
    /\ searchBar = InitialSearchBar

\* No component has mounted yet; the Gateway is not used.
StoreInit ==
    /\ demoMode = FALSE
    /\ now = StartTime
    /\ ticks = 0
    /\ lastRequestTime = 0
    /\ cache = [k \in Keys |-> NoEntry]
    /\ calls = [c \in Slots |-> IdleCall]
    /\ localStorage \in InitialStorage
    /\ hooks = [h \in HookIds |-> FreshHook]
    /\ panel = InitialPanel
    /\ lookup = NoLookup
    /\ demo = NoDemoCall
    /\ searchBar = InitialSearchBar

\* Times at which the items a former session left in storage were added.
PastTimes == {StartTime - 2 * ShortStep, StartTime - ShortStep}

\* The items a former session can have stored.
StoredItems ==
    {[NewItem(snap) EXCEPT !.added_date = toISOString(t), !.watched = w] :
        snap \in Catalog, t \in PastTimes, w \in BOOLEAN}

\* The lists a former session can have stored: one item per pair, in the
\* order they were added.
StoredLists ==
    {L \in UNION {[1..n -> StoredItems] : n \in 0..MaxViewItems} :
        \A i, j \in 1..Len(L) :
            i < j => /\ ~Matches(L[j], L[i].id, L[i].type)
                     /\ L[i].added_date.iso <= L[j].added_date.iso}

\* The page is opened on what a former session stored.
PanelInit ==
    /\ demoMode = FALSE
    /\ now = StartTime
    /\ ticks = 0
    /\ lastRequestTime = 0
    /\ cache = [k \in Keys |-> NoEntry]
    /\ calls = [c \in Slots |-> IdleCall]
    /\ localStorage \in {Stored(JSONstringify(L)) : L \in StoredLists}
    /\ hooks = [h \in HookIds |-> FreshHook]
    /\ panel = InitialPanel
    /\ lookup = NoLookup
    /\ demo = NoDemoCall
    /\ searchBar = InitialSearchBar

\* lib/api loaded without a credential.
DemoInit ==
    /\ demoMode = TRUE
    /\ now = StartTime
    /\ ticks = 0
    /\ lastRequestTime = 0
    /\ cache = [k \in Keys |-> NoEntry]
    /\ calls = [c \in Slots |-> IdleCall]
    /\ localStorage = Absent
    /\ hooks = [h \in HookIds |-> FreshHook]
    /\ panel = InitialPanel
    /\ lookup = NoLookup
    /\ demo = NoDemoCall
    /\ searchBar = InitialSearchBar

DemoDiscoverAny == \E op \in DiscoverOps, params \in DemoParams : DemoDiscover(op, params)

DemoNext == DemoDiscoverAny \/ DemoDiscoverReturn

\* The search bar alone.
SearchInit ==
    /\ demoMode = FALSE
    /\ now = StartTime
    /\ ticks = 0
    /\ lastRequestTime = 0
    /\ cache = [k \in Keys |-> NoEntry]
    /\ calls = [c \in Slots |-> IdleCall]
    /\ localStorage = Absent
    /\ hooks = [h \in HookIds |-> FreshHook]
    /\ panel = InitialPanel
    /\ lookup = NoLookup
    /\ demo = NoDemoCall
    /\ searchBar = InitialSearchBar

InputChangeAny == \E value \in Queries : handleInputChange(value)
SelectItemAny == \E i \in 1..2 : handleSelectItem(i)
SearchSettlesAny == \E q \in Queries, ok \in BOOLEAN : SearchSettles(q, ok)

SearchNext ==
    InputChangeAny \/ SelectItemAny \/ clearSearch \/ performSearch \/ SearchSettlesAny

SetFilterAny == \E f \in Filters : setFilter(f)
SetSortByAny == \E k \in SortKeys : setSortBy(k)
PanelToggleAny == \E i \in 1..MaxViewItems : handleToggleWatched(i)
PanelRemoveAny == \E i \in 1..MaxViewItems : handleRemoveItem(i)
LookupAny == \E id \in Ids, type \in Types : Lookup(id, type)

PanelNext ==
    PanelMount \/ SetFilterAny \/ SetSortByAny \/ PanelToggleAny
        \/ PanelRemoveAny \/ handleClearAll \/ LookupAny

MountAny == \E h \in HookIds : Mount(h)
AddAny == \E h \in HookIds, snap \in Catalog : addToWatchlist(h, snap)
RemoveAny == \E h \in HookIds, id \in Ids, type \in Types : removeFromWatchlist(h, id, type)
ToggleAny == \E h \in HookIds, id \in Ids, type \in Types : toggleWatched(h, id, type)
ClearAny == \E h \in HookIds : clearWatchlist(h)
CardToggleAny == \E h \in HookIds, snap \in Catalog : handleWatchlistToggle(h, snap)

\* Time passes between two Store operations.
StoreTick == ticks < MaxStoreTicks /\ Tick(ShortStep)

StoreNext ==
    MountAny \/ AddAny \/ RemoveAny \/ ToggleAny \/ ClearAny \/ CardToggleAny \/ StoreTick

GatewaySpec == GatewayInit /\ [][GatewayNext]_vars
DashboardSpec == GatewayInit /\ [][DashboardNext]_vars
DiscoverSpec == GatewayInit /\ [][DiscoverNext]_vars
StoreSpec == StoreInit /\ [][StoreNext]_vars
PanelSpec == PanelInit /\ [][PanelNext]_vars
DemoSpec == DemoInit /\ [][DemoNext]_vars
SearchSpec == SearchInit /\ [][SearchNext]_vars

(***************************************************************************)
(* Gateway claims.                                                         *)
(***************************************************************************)
\* Call c starts its outbound request in this step.
Starts(c) == calls[c].pc # "net" /\ calls'[c].pc = "net"

\* Call c is invoked in this step.
Invoked(c) == calls[c].pc = "idle" /\ calls'[c].pc # "idle"

\* Call c's request completes in this step.
Completes(c) == calls[c].pc = "net" /\ calls'[c].pc = "done"

\* Call c took the cache path (not a demo branch) when invoked in this step.
OnCachePath(c) == ~(demoMode /\ calls'[c].op \in DemoOps)

\* No slot other than c1 and c2 holds a call for the key call c2 gets in this step.
OnlyTwo(c1, c2) ==
    \A c3 \in Slots \ {c1, c2} :
        calls[c3].pc = "idle"
        \/ cacheKey(calls[c3].op, calls[c3].arg) # cacheKey(calls'[c2].op, calls'[c2].arg)

\* C1: the start times of any two consecutive outbound requests differ by at
\* least RATE_LIMIT_DELAY, whatever the operations (lastRequestTime is the
\* start time of the previous request, 0 when there was none).
C1_PacingGap ==
    [][\A c \in Slots :
          (Starts(c) /\ lastRequestTime # 0)
              => now - lastRequestTime >= RATE_LIMIT_DELAY]_vars

\* C4: when a call has returned a value and the same logical call is issued
\* again within the TTL window of the first, the second call makes no
\* outbound request and returns the value the first returned.
C4_SecondCallServedFromCache ==
    [][\A c1, c2 \in Slots :
          ( /\ c1 # c2
            /\ Invoked(c2)
            /\ calls[c1].pc = "done" /\ calls[c1].status = "return"
            /\ calls'[c2].op = calls[c1].op /\ calls'[c2].arg = calls[c1].arg
            /\ OnlyTwo(c1, c2)
            /\ now - calls[c1].issuedAt < CACHE_DURATION )
          => /\ calls'[c2].pc \in {"done", "demo"}
             /\ calls'[c2].pc = "done" => calls'[c2].data = calls[c1].data]_vars

C8_ReturnedValueIsCached ==
    [][\A c \in Slots :
          (Completes(c) /\ calls'[c].status = "return")
              => cache'[KeyOf(c)] =
                     [present |-> TRUE, data |-> calls'[c].data, timestamp |-> now]]_vars

SameFilters(p, q) ==
    {p[i] : i \in {j \in 1..Len(p) : p[j].val # "undefined"}}
        = {q[i] : i \in {j \in 1..Len(q) : q[j].val # "undefined"}}

\* C13: when a discover call has returned the provider's answer and the same
\* operation is called within the TTL with params that give the same filters,
\* whatever their key order, the second call is served from the cache with
\* the first call's value.
C13_DiscoverKeyCanonical ==
    [][\A c1, c2 \in Slots : \A p, q \in DiscoverParams :
          ( /\ c1 # c2
            /\ SameFilters(p, q)
            /\ Invoked(c2) /\ OnCachePath(c2)
            /\ calls'[c2].op \in DiscoverOps
            /\ calls'[c2].arg = StringifyParams(q)
            /\ calls[c1].op = calls'[c2].op
            /\ calls[c1].arg = StringifyParams(p)
            /\ calls[c1].pc = "done" /\ calls[c1].outcome = "ok"
            /\ now - calls[c1].issuedAt < CACHE_DURATION )
          => /\ calls'[c2].pc = "done"
             /\ calls'[c2].data = calls[c1].data]_vars

\* C14: with the TMDB credential absent (DEMO_MODE), no call of any Gateway
\* operation waits for or makes an outbound request, and none fails.
C14_OfflineFallbackForEveryOperation ==
    demoMode =>
        \A c \in Slots :
            /\ calls[c].pc \notin {"sleep", "net"}
            /\ calls[c].outcome = "none"
            /\ calls[c].status # "throw"

\* C15: a call that finds a valid entry under its key ends at once returning
\* the entry's data: no pacing wait, no request, and the cache table, the
\* pacing scalar and the clock are as before.
C15_CacheHitIsPure ==
    [][\A c \in Slots :
          LET e == cache[cacheKey(calls'[c].op, calls'[c].arg)]
          IN ( /\ Invoked(c) /\ OnCachePath(c)
               /\ e.present /\ now - e.timestamp < CACHE_DURATION )
             => /\ calls'[c].pc = "done"
                /\ calls'[c].status = "return"
                /\ calls'[c].outcome = "none"
                /\ calls'[c].data = e.data
                /\ cache' = cache
                /\ lastRequestTime' = lastRequestTime
                /\ now' = now]_vars

\* Witness of C15: a call was served from the cache after the pacing scalar
\* had been set by the request that filled it.
C15_Witness ==
    \E c1, c2 \in CallIds :
        /\ c1 # c2
        /\ ~(demoMode /\ calls[c2].op \in DemoOps)
        /\ calls[c1].pc = "done" /\ calls[c1].outcome = "ok"
        /\ calls[c2].pc = "done" /\ calls[c2].outcome = "none"
        /\ calls[c2].status = "return"
        /\ KeyOf(c1) = KeyOf(c2)
        /\ calls[c2].data = cache[KeyOf(c2)].data
        /\ lastRequestTime = calls[c1].issuedAt
        /\ calls[c2].issuedAt > calls[c1].issuedAt

\* What the caller of call c observes once the call has ended.
Observed(c) == <<calls[c].status, calls[c].data, calls[c].msg>>

\* C11: a transport failure of getOMDBData ends the call with an error, and
\* what its caller observes differs from what the caller of a lookup that
\* found no match observes.
C11_TransportFailureSurfaced ==
    /\ \A c \in Slots :
          (calls[c].op = "getOMDBData" /\ calls[c].outcome = "error")
              => calls[c].status = "throw"
    /\ \A c1, c2 \in Slots :
          ( /\ calls[c1].op = "getOMDBData" /\ calls[c1].outcome = "error"
            /\ calls[c2].op = "getOMDBData" /\ calls[c2].outcome = "notfound" )
          => Observed(c1) # Observed(c2)

\* C12: a getOMDBData call that OMDb answered with 'not found' has ended by
\* returning null; it has thrown nothing.
C12_NotFoundReturnsNull ==
    \A c \in Slots :
        calls[c].outcome = "notfound"
            => /\ calls[c].op = "getOMDBData"
               /\ calls[c].pc = "done"
               /\ calls[c].status = "return"
               /\ calls[c].data = "null"
               /\ calls[c].msg = ""

\* Witness of C12: a lookup answered 'not found' has returned.
C12_Witness ==
    \E c \in CallIds :
        /\ calls[c].op = "getOMDBData"
        /\ calls[c].outcome = "notfound"
        /\ calls[c].pc = "done"

(***************************************************************************)
(* Store claims.                                                           *)
(***************************************************************************)
\* Hook h runs one of the mutating operations in this step.
Mutation(h) ==
    \/ \E snap \in Catalog : addToWatchlist(h, snap)
    \/ \E id \in Ids, type \in Types : removeFromWatchlist(h, id, type)
    \/ \E id \in Ids, type \in Types : toggleWatched(h, id, type)
    \/ clearWatchlist(h)

\* The operation hook h runs in this step completes (it does not throw).
Completed(h) == hooks[h].watchlist.t = "array" \/ clearWatchlist(h)

\* C2: a tracked collection holds at most one item per (id, type) pair.
C2_AtMostOnePerPair ==
    \A h \in HookIds :
        LET items == hooks[h].watchlist.items
        IN \A i, j \in 1..Len(items) :
               Matches(items[j], items[i].id, items[i].type) => i = j

\* C3: add of a pair that is already present changes nothing: the one
\* matching item keeps the fields of the first add.
C3_AddIsIdempotent ==
    [][\A h \in HookIds, snap \in Catalog :
          ( /\ addToWatchlist(h, snap)
            /\ hooks[h].watchlist.t = "array"
            /\ isInWatchlist(hooks[h].watchlist, snap.id, snap.type) )
          => hooks'[h].watchlist = hooks[h].watchlist]_vars

\* C6: after a completed add, remove, toggleWatched or clear, localStorage
\* holds the serialization of the whole list of the hook that ran it, and
\* parsing it gives that list back.
C6_PersistedEqualsMemory ==
    [][\A h \in HookIds :
          (Mutation(h) /\ Completed(h))
          => /\ localStorage' = Stored(JSONstringify(hooks'[h].watchlist.items))
             /\ JSONparse(localStorage'.text) = hooks'[h].watchlist]_vars

\* Witness of C6: a list of two items, the first one watched, is in memory
\* and persisted.
C6_Witness ==
    \E h \in HookIds :
        /\ hooks[h].mounted
        /\ Len(hooks[h].watchlist.items) = 2
        /\ hooks[h].watchlist.items[1].watched
        /\ ~hooks[h].watchlist.items[2].watched
        /\ localStorage = Stored(JSONstringify(hooks[h].watchlist.items))

\* C7: once a mutation through one hook has completed, every mounted hook
\* holds the mutated collection, which is the persisted one.
C7_SharedCollection ==
    [][\A h \in HookIds :
          (Mutation(h) /\ Completed(h))
          => \A g \in HookIds :
                 hooks'[g].mounted =>
                     /\ hooks'[g].watchlist = hooks'[h].watchlist
                     /\ hooks'[g].watchlist = JSONparse(localStorage'.text)]_vars

\* The list hook h holds before and after the step.
Before(h) == hooks[h].watchlist.items
After(h) == hooks'[h].watchlist.items

\* The positions of list L that hold the pair (id, type).
Positions(L, id, type) == {i \in 1..Len(L) : Matches(L[i], id, type)}

KeptAt(L, id, type, k) ==
    CHOOSE i \in 1..Len(L) :
        /\ i \notin Positions(L, id, type)
        /\ Cardinality({j \in 1..i : j \notin Positions(L, id, type)}) = k

C20_StatsAreCounts ==
    \A h \in HookIds :
        hooks[h].mounted =>
            LET L == hooks[h].watchlist.items
                st == getWatchlistStats(hooks[h].watchlist)
                is(t, w, u, m, s) ==
                    /\ st.total = t /\ st.watched = w /\ st.unwatched = u
                    /\ st.movies = m /\ st.tvShows = s
            IN /\ ~st.threw
               /\ is(Len(L),
                     Cardinality({i \in 1..Len(L) : L[i].watched}),
                     Cardinality({i \in 1..Len(L) : ~L[i].watched}),
                     Cardinality({i \in 1..Len(L) : L[i].type = "movie"}),
                     Cardinality({i \in 1..Len(L) : L[i].type = "tv"}))
               /\ st.watched + st.unwatched = st.total
               /\ st.movies + st.tvShows = st.total
               /\ (Len(L) = 1 /\ L[1].type = "movie" /\ ~L[1].watched) => is(1, 0, 1, 1, 0)
               /\ (Len(L) = 1 /\ L[1].type = "movie" /\ L[1].watched) => is(1, 1, 0, 1, 0)
               /\ Len(L) = 0 => is(0, 0, 0, 0, 0)

\* C21: the load effect of a hook ends with isLoading false and raises
\* nothing; with no stored value, or a stored text that does not parse, the
\* collection is empty; with a stored list the collection is that list (it
\* serializes to the stored text).
C21_LoadNeverRaises ==
    [][\A h \in HookIds :
          Mount(h) =>
              /\ hooks'[h].mounted /\ ~hooks'[h].isLoading
              /\ localStorage' = localStorage
              /\ (~localStorage.present \/ localStorage.text = Garbage)
                     => hooks'[h].watchlist = Arr(<<>>)
              /\ (localStorage.present /\ localStorage.text.j = "array")
                     => /\ hooks'[h].watchlist.t = "array"
                        /\ JSONstringify(After(h)) = localStorage.text]_vars

\* Witness of C21: two hooks hold the same list with a watched item in it,
\* which is the list in storage (the one that did not write it loaded it).
C21_Witness ==
    \E h, g \in HookIds :
        /\ h # g /\ hooks[h].mounted /\ hooks[g].mounted
        /\ ~hooks[h].isLoading /\ ~hooks[g].isLoading
        /\ Len(hooks[h].watchlist.items) = 1
        /\ hooks[h].watchlist.items[1].watched
        /\ hooks[g].watchlist = hooks[h].watchlist
        /\ localStorage = Stored(JSONstringify(hooks[h].watchlist.items))

(***************************************************************************)
(* Claims about the panel's view and the read operations (PanelSpec).      *)
(***************************************************************************)
PanelItems == hooks[PanelHook].watchlist.items

C23_ReadsChangeNothing ==
    [][(SetFilterAny \/ SetSortByAny \/ LookupAny)
           => /\ hooks' = hooks
              /\ localStorage' = localStorage]_vars

\* A lookup found a watched item and the panel shows the unwatched ones by
\* title, while the collection of three is still in the order it was stored
\* in, which is not the title order.
C23_Witness ==
    /\ hooks[PanelHook].mounted
    /\ lookup.inWatchlist /\ lookup.isWatched
    /\ panel.filter = "unwatched" /\ panel.sortBy = "title"
    /\ Len(panel.view) = 2
    /\ Len(PanelItems) = 3
    /\ TitleRank(PanelItems[1].title) > TitleRank(PanelItems[3].title)
    /\ localStorage = Stored(JSONstringify(PanelItems))

(***************************************************************************)
(* Claims about discover without a credential (DemoSpec).                  *)
(***************************************************************************)
\* C24: the results of the offline discoverMovies and discoverTVShows are in
\* descending popularity when no sort key is given and when the key is not a
\* recognized one; the recognized keys order by ascending popularity, by
\* rating ascending or descending and by release date ascending or
\* descending (the date key is release_date.* for movies and first_air_date.*
\* for shows, as the dashboard offers them), for movies and for shows alike.
C24_OfflineOrdering ==
    demo.pc = "done" =>
        LET r == demo.results
            k == demo.params.sortBy
            movies == demo.op = "discoverMovies"
            date(it) == DemoTime(IF movies THEN it.release_date ELSE it.first_air_date)
            newest == IF movies THEN "release_date.desc" ELSE "first_air_date.desc"
            oldest == IF movies THEN "release_date.asc" ELSE "first_air_date.asc"
            InOrder(a, b) ==
                CASE k = "popularity.asc" -> a.popularity <= b.popularity
                  [] k = "vote_average.desc" -> a.vote_average >= b.vote_average
                  [] k = "vote_average.asc" -> a.vote_average <= b.vote_average
                  [] k = newest -> date(a) >= date(b)
                  [] k = oldest -> date(a) <= date(b)
                  [] OTHER -> a.popularity >= b.popularity
        IN  \A i, j \in 1..Len(r) : i < j => InOrder(r[i], r[j])

\* Both movies returned by descending rating, which is not the order of the
\* data.
C24_Witness ==
    /\ demo.pc = "done" /\ demo.op = "discoverMovies"
    /\ demo.params.sortBy = "vote_average.desc"
    /\ Len(demo.results) = 2
    /\ demo.results[1].id = 2 /\ demo.results[2].id = 1

\* C25: the result of the offline discoverMovies and discoverTVShows holds
\* exactly the items of the data whose genre ids contain the genre asked for
\* (when one is) and whose release year is the year asked for (when one is).
C25_OfflineFilter ==
    demo.pc = "done" =>
        LET r == demo.results
            data == DemoData(demo.op)
            Wanted(it) ==
                /\ demo.params.genre # NoGenre => demo.params.genre \in it.genre_ids
                /\ demo.params.year # NoYear
                       => getFullYear(DateOf(demo.op, it)) = demo.params.year
        IN  /\ \A j \in 1..Len(r) : Wanted(r[j]) /\ \E i \in 1..Len(data) : data[i] = r[j]
            /\ \A i \in 1..Len(data) :
                   Wanted(data[i]) => Cardinality({j \in 1..Len(r) : r[j] = data[i]}) = 1
            /\ Len(r) = Cardinality({i \in 1..Len(data) : Wanted(data[i])})

\* Genre 53 asked for, by descending popularity: the more popular movie,
\* which lacks the genre, is left out.
C25_Witness ==
    /\ demo.pc = "done" /\ demo.op = "discoverMovies"
    /\ demo.params.genre = 53 /\ demo.params.year = NoYear
    /\ demo.params.sortBy = "popularity.desc"
    /\ Len(demo.results) = 1
    /\ demo.results[1].id = 2

(***************************************************************************)
(* Claims about requests in flight and retries (GatewaySpec).              *)
(***************************************************************************)
\* Call d has passed the cache check and not completed: it is waiting for
\* pacing or its request is out.
InFlight(d) == calls[d].pc \in {"sleep", "net"}

\* C26: requests in flight are not de-duplicated: a call invoked for a key
\* that has no live entry while another call for that key is in flight
\* passes the cache check and goes through pacing, and a call waiting for
\* pacing makes its own outbound request when it wakes, whatever else is in
\* flight.
C26_NoInFlightDedup ==
    [][\A c \in Slots :
          /\ (/\ Invoked(c) /\ OnCachePath(c)
              /\ getCachedData(cacheKey(calls'[c].op, calls'[c].arg)) = "null"
              /\ \E d \in Slots \ {c} :
                     InFlight(d) /\ KeyOf(d) = cacheKey(calls'[c].op, calls'[c].arg))
                 => calls'[c].pc \in {"sleep", "net"}
          /\ (calls[c].pc = "sleep" /\ calls'[c] # calls[c])
                 => calls'[c].pc = "net"]_vars

\* Two outbound requests for one key are out at the same time.
C26_Witness ==
    \E c, d \in CallIds :
        /\ c # d
        /\ calls[c].pc = "net" /\ calls[d].pc = "net"
        /\ KeyOf(c) = KeyOf(d)

\* C27: a call makes at most one outbound request: it starts one only if it
\* has had no answer yet, the answer ends the call, and the step in which a
\* request fails starts no request; an ended call stays as it ended.
C27_NoRetry ==
    [][\A c \in Slots :
          /\ Starts(c) => calls[c].outcome = "none"
          /\ (calls[c].pc = "net" /\ calls'[c] # calls[c])
                 => /\ calls'[c].pc = "done"
                    /\ calls'[c].outcome # "none"
          /\ (Completes(c) /\ calls'[c].outcome = "error")
                 => /\ lastRequestTime' = lastRequestTime
                    /\ \A d \in Slots : ~Starts(d)
          /\ calls[c].pc = "done" => calls'[c] = calls[c]]_vars

\* A request failed, time has passed since, and the failed request is still
\* the last one that was started.
C27_Witness ==
    \E c \in CallIds :
        /\ calls[c].pc = "done" /\ calls[c].outcome = "error"
        /\ lastRequestTime = calls[c].issuedAt
        /\ now >= lastRequestTime + RATE_LIMIT_DELAY
        /\ \A d \in Slots \ {c} : calls[d].pc = "idle"

(***************************************************************************)
(* Claims about several useWatchlist instances and about what load         *)
(* accepts (StoreSpec).                                                    *)
(***************************************************************************)
\* The list a reload would find in durable storage.
Durable(saved) ==
    IF saved.present /\ saved.text.j = "array" THEN JSONparse(saved.text).items ELSE <<>>

PairsOf(L) == {<<L[i].id, L[i].type>> : i \in 1..Len(L)}

WatchedOf(L, id, type) ==
    {L[i].watched : i \in {j \in 1..Len(L) : Matches(L[j], id, type)}}

\* C28: no update is lost, whichever instance of useWatchlist a mutation is
\* made through: an add leaves in durable storage every item that was there
\* and the added one, a toggle leaves every item there with the watched flag
\* of the toggled one flipped, and a remove takes out the removed item only.
C28_NoLostUpdate ==
    [][\A h \in HookIds :
          LET old == Durable(localStorage)
              new == Durable(localStorage')
          IN  /\ \A snap \in Catalog :
                     addToWatchlist(h, snap)
                         => (PairsOf(old) \cup {<<snap.id, snap.type>>}) \subseteq PairsOf(new)
              /\ \A id \in Ids, type \in Types :
                     toggleWatched(h, id, type)
                         => /\ PairsOf(new) = PairsOf(old)
                            /\ WatchedOf(new, id, type)
                                   = {~w : w \in WatchedOf(old, id, type)}
              /\ \A id \in Ids, type \in Types :
                     removeFromWatchlist(h, id, type)
                         => PairsOf(new) = PairsOf(old) \ {<<id, type>>}]_vars

\* C29: after load the collection of a caller is a sequence of items,
\* whatever is stored: a stored text that parses to something that is no
\* list is treated as corrupt and gives the empty collection.
C29_LoadYieldsSequence ==
    [][\A h \in HookIds :
          Mount(h) =>
              /\ hooks'[h].watchlist.t = "array"
              /\ (localStorage.present /\ localStorage.text.j # "array")
                     => hooks'[h].watchlist = Arr(<<>>)]_vars

(***************************************************************************)
(* Claim about the search bar (SearchSpec).                                *)
(***************************************************************************)
\* C30: once no search is pending or in flight, the results shown are those
\* of the query in the input (or none, after a failed search), and nothing
\* is shown and nothing is held when the input is empty: a search started
\* for an earlier query, or before the input was cleared or an item selected,
\* does not overwrite or show again when it completes.
C30_ResultsOfCurrentQuery ==
    (searchBar.inFlight = {} /\ searchBar.timer = NoTimer) =>
        /\ Blank(searchBar.query)
               => ~searchBar.showResults /\ searchBar.results = <<>>
        /\ ~Blank(searchBar.query)
               => searchBar.results \in {ResultsOf(searchBar.query), <<>>}

=============================================================================
